---- MODULE Spec2Model ----
(***************************************************************************)
(* Model of the pose-to-gesture dataset converter                          *)
(* (convert_dataset_gesture.py) and of the name normalizer of the          *)
(* mapping-builder tool (make_gesture.py).                                 *)
(*                                                                         *)
(* Text is a sequence of one-character strings.  A text file is a          *)
(* sequence of lines (each without its line terminator), which is what     *)
(* `for line in f` iterates over; a written label file is the character    *)
(* sequence handed to f.write, line terminators included.                  *)
(***************************************************************************)
EXTENDS Integers, Sequences, FiniteSets, TLC

VARIABLES
    pc,            \* position of the entry point / of process_dataset
    run,           \* how many times the script has been started
    err,           \* the exception that ended the run, or None
    mapFile,       \* GESTURE_MAP_FILE: NoFile, or File(its lines)
    folder_map,    \* the dict load_gesture_map returned (insertion ordered)
    src_images,    \* POSE_DATASET_DIR/images/<split>: set of directory entries
    src_labels,    \* POSE_DATASET_DIR/labels/<split>: stem -> file
    destRoot,      \* GESTURE_DATASET_DIR exists
    yaml,          \* GESTURE_DATASET_DIR/dataset.yaml has been written
    dest_dirs,     \* splits whose images/<split>, labels/<split> exist
    dest_labels,   \* GESTURE_DATASET_DIR/labels/<split>: stem -> text
    dest_images,   \* GESTURE_DATASET_DIR/images/<split>: name -> data
    stats,         \* process_dataset's stats dict
    splits,        \* splits the outer loop has still to visit
    image_files,   \* entries the inner loop has still to visit
    cur,           \* locals of the last loop body executed
    processed,     \* loop bodies executed in this run
    first,         \* stats and destination tree at the end of the first run
    name,          \* normalize_name's argument
    normalized     \* normalize_name's result

vars == <<pc, run, err, mapFile, folder_map, src_images, src_labels, destRoot,
          yaml, dest_dirs, dest_labels, dest_images, stats, splits,
          image_files, cur, processed, first, name, normalized>>

\* Python's None where a string is expected, and an optional value as a
\* sequence of at most one element
None == "None"
Nothing == <<>>
Just(v) == <<v>>

\* a file that may not exist: the mapping file, a source label file
NoFile == [kind |-> "absent", lines |-> <<>>]
Unreadable == [kind |-> "unreadable", lines |-> <<>>]
File(lines) == [kind |-> "text", lines |-> lines]

\* ------------------------------------------------------------------ bounds
MaxImages == 2
MaxRuns == 2
MaxMapLines == 2
MaxKeyLen == 2
MaxStemLen == 3
MaxMapSize == 2
MaxTokens == 6
MaxLabelLines == 2
MaxNameLen == 3

\* ------------------------------------------------------- text primitives
Whitespace == {" ", "\t", "\n"}
Digits == <<"0", "1", "2", "3", "4", "5", "6", "7", "8", "9">>
DigitSet == {Digits[i] : i \in 1..10}

RECURSIVE join(_, _)
join(sep, parts) ==
    IF parts = <<>> THEN <<>>
    ELSE IF Len(parts) = 1 THEN Head(parts)
    ELSE Head(parts) \o sep \o join(sep, Tail(parts))

RECURSIVE SplitAcc(_, _, _)
SplitAcc(s, tok, acc) ==
    IF s = <<>> THEN (IF tok = <<>> THEN acc ELSE Append(acc, tok))
    ELSE IF Head(s) \in Whitespace
         THEN SplitAcc(Tail(s), <<>>, IF tok = <<>> THEN acc ELSE Append(acc, tok))
         ELSE SplitAcc(Tail(s), Append(tok, Head(s)), acc)

\* str.split(): the maximal runs of non-whitespace characters
split(s) == SplitAcc(s, <<>>, <<>>)

RECURSIVE lstrip(_, _)
lstrip(s, chars) ==
    IF s # <<>> /\ Head(s) \in chars THEN lstrip(Tail(s), chars) ELSE s

RECURSIVE rstrip(_, _)
rstrip(s, chars) ==
    IF s # <<>> /\ s[Len(s)] \in chars THEN rstrip(SubSeq(s, 1, Len(s) - 1), chars)
    ELSE s

\* str.strip(chars); str.strip() is strip(s, Whitespace)
strip(s, chars) == rstrip(lstrip(s, chars), chars)

RECURSIVE replace(_, _, _)
\* str.replace(old, new) for a one-character `old`
replace(s, old, new) ==
    IF s = <<>> THEN <<>>
    ELSE (IF Head(s) = old THEN new ELSE <<Head(s)>>) \o replace(Tail(s), old, new)

startswith(s, c) == s # <<>> /\ Head(s) = c

\* `key in stem`: key occurs as a contiguous substring
Contains(stem, key) ==
    \E i \in 0..(Len(stem) - Len(key)) : SubSeq(stem, i + 1, i + Len(key)) = key

RECURSIVE DigitsOf(_)
DigitsOf(n) == IF n < 10 THEN <<Digits[n + 1]>>
               ELSE DigitsOf(n \div 10) \o <<Digits[(n % 10) + 1]>>

\* str(int), as the f-string formats new_class_id
str(n) == IF n < 0 THEN <<"-">> \o DigitsOf(-n) ELSE DigitsOf(n)

DigitValue(c) == CHOOSE d \in 0..9 : Digits[d + 1] = c

RECURSIVE NatValue(_, _)
NatValue(s, acc) ==
    IF s = <<>> THEN acc
    ELSE IF Head(s) = "_" THEN NatValue(Tail(s), acc)
    ELSE NatValue(Tail(s), 10 * acc + DigitValue(Head(s)))

Unsigned(tok) == IF tok # <<>> /\ Head(tok) \in {"+", "-"} THEN Tail(tok) ELSE tok

\* int(tok) succeeds: an optional sign, then digits, single underscores
\* allowed between digits
IsInt(tok) ==
    LET b == Unsigned(tok)
    IN  /\ b # <<>>
        /\ \A i \in 1..Len(b) : b[i] \in DigitSet \cup {"_"}
        /\ b[1] # "_" /\ b[Len(b)] # "_"
        /\ \A i \in 1..(Len(b) - 1) : ~(b[i] = "_" /\ b[i + 1] = "_")

int(tok) == IF Head(tok) = "-" THEN -NatValue(Unsigned(tok), 0)
            ELSE NatValue(Unsigned(tok), 0)

\* all sequences over `alphabet` of length at most n
RECURSIVE SeqsUpTo(_, _)
SeqsUpTo(alphabet, n) ==
    IF n = 0 THEN {<<>>}
    ELSE LET shorter == SeqsUpTo(alphabet, n - 1)
         IN  shorter \cup {Append(s, c) : s \in shorter, c \in alphabet}

\* ---------------------------------------------- make_gesture.normalize_name
\* the upper-case letters of the names modelled are O and P
lowerChar(c) == IF c = "O" THEN "o" ELSE IF c = "P" THEN "p" ELSE c

\* str.lower()
lower(s) == [i \in 1..Len(s) |-> lowerChar(s[i])]

normalize_name_KeepsUnderscore(n) ==
    replace(replace(lower(n), "-", <<>>), " ", <<>>)

normalize_name(n) ==
    replace(replace(replace(lower(n), "-", <<>>), "_", <<>>), " ", <<>>)

\* ------------------------------------------------ convert: the gesture map
\* A dict is a sequence of <<key, value>> pairs in insertion order.
Keys(d) == [i \in 1..Len(d) |-> d[i][1]]
KeySet(d) == {d[i][1] : i \in 1..Len(d)}
Values(d) == {d[i][2] : i \in 1..Len(d)}
Get(d, k) == d[CHOOSE i \in 1..Len(d) : d[i][1] = k][2]

\* d[k] = v: a new key is appended, an old key keeps its place
DictSet_KeepDuplicates(d, k, v) == Append(d, <<k, v>>)

DictSet(d, k, v) ==
    IF k \in KeySet(d)
    THEN [i \in 1..Len(d) |-> IF d[i][1] = k THEN <<k, v>> ELSE d[i]]
    ELSE Append(d, <<k, v>>)

IsComment(line) == startswith(line, "#")
IsBlank(line) == strip(line, Whitespace) = <<>>

\* path_key.strip("/\\").replace("/", "_").replace("\\", "_")
processed_key(path_key) ==
    replace(replace(strip(path_key, {"/", "\\"}), "/", <<"_">>), "\\", <<"_">>)

\* one iteration of `for line in f` of load_gesture_map
MapLine(gesture_map, line) ==
    IF IsComment(line) \/ IsBlank(line) THEN gesture_map
    ELSE LET parts == split(strip(line, Whitespace))
         IN  IF Len(parts) < 2 THEN gesture_map
             ELSE IF ~IsInt(parts[Len(parts)]) THEN gesture_map
             ELSE IF processed_key(parts[1]) = <<>> THEN gesture_map
             ELSE DictSet(gesture_map, processed_key(parts[1]),
                          int(parts[Len(parts)]))

RECURSIVE ParseLines(_, _)
ParseLines(gesture_map, lines) ==
    IF lines = <<>> THEN gesture_map
    ELSE ParseLines(MapLine(gesture_map, Head(lines)), Tail(lines))

\* the dict load_gesture_map builds from the file's lines
ParseMap(lines) == ParseLines(<<>>, lines)

\* ------------------------------------------- convert: matching a filename
RECURSIVE InsertByLen(_, _)
\* k goes before the first strictly shorter key: a stable descending sort
InsertByLen(sorted, k) ==
    IF sorted = <<>> THEN <<k>>
    ELSE IF Len(Head(sorted)) < Len(k) THEN <<k>> \o sorted
    ELSE <<Head(sorted)>> \o InsertByLen(Tail(sorted), k)

RECURSIVE SortByLen(_, _)
SortByLen(sorted, keys) ==
    IF keys = <<>> THEN sorted
    ELSE SortByLen(InsertByLen(sorted, Head(keys)), Tail(keys))

sorted_folder_keys_Unsorted(m) == Keys(m)

\* sorted(folder_map.keys(), key=len, reverse=True)
sorted_folder_keys(m) == SortByLen(<<>>, Keys(m))

RECURSIVE FirstMatch(_, _, _)
FirstMatch(keys, filename_stem, m) ==
    IF keys = <<>> THEN Nothing
    ELSE IF Contains(filename_stem, Head(keys)) THEN Just(Get(m, Head(keys)))
    ELSE FirstMatch(Tail(keys), filename_stem, m)

\* the `for folder_key in sorted_folder_keys` loop: new_class_id
new_class_id(filename_stem, m) ==
    FirstMatch(sorted_folder_keys(m), filename_stem, m)

\* ------------------------------------------- convert: rewriting a label
Min(a, b) == IF a < b THEN a ELSE b

bbox_WithKeypoints(parts) == SubSeq(parts, 2, Len(parts))

\* parts[1:5]
bbox(parts) == SubSeq(parts, 2, Min(5, Len(parts)))

\* one iteration of `for line in f` of the label loop
LabelLine(class_id, line) ==
    LET parts == split(strip(line, Whitespace))
    IN  IF parts = <<>> THEN <<>>
        ELSE str(class_id) \o <<" ">> \o join(<<" ">>, bbox(parts)) \o <<"\n">>

RECURSIVE new_label_content(_, _)
new_label_content(class_id, lines) ==
    IF lines = <<>> THEN <<>>
    ELSE LabelLine(class_id, Head(lines)) \o new_label_content(class_id, Tail(lines))

\* ------------------------------------------------------------- the files
Splits == <<"train", "val">>
SplitSet == {"train", "val"}

\* a destination or source directory as a function from names to contents
EmptyDir == <<>>
Put(dir, k, v) == [x \in (DOMAIN dir) \cup {k} |-> IF x = k THEN v ELSE dir[x]]

\* lines of mapping files
LineComment == <<"#", " ", "c">>
LineBlank == <<" ">>
LineOneToken == <<"b", "/", "c">>
LineNoId == <<"b", "/", "c", " ", "O", "K">>
LineBC == <<"b", "/", "c", " ", "O", "K", " ", "1", "0">>
LineABC == <<"a", "/", "b", "/", "c", " ", "u", "p", " ", "4">>
LineBCAgain == <<"/", "b", "\\", "c", "/", "\t", "7">>
LineRoot == <<"/", " ", "3">>
MapLines == {LineComment, LineBlank, LineOneToken, LineNoId, LineBC, LineABC,
             LineBCAgain, LineRoot}

RECURSIVE FilesUpTo(_, _)
\* all files of at most n lines drawn from `lines`
FilesUpTo(lines, n) ==
    IF n = 0 THEN {<<>>}
    ELSE LET shorter == FilesUpTo(lines, n - 1)
         IN  shorter \cup {Append(f, l) : f \in shorter, l \in lines}

\* the mapping files the whole-run specification starts from
SampleMapFiles == {NoFile, File(<<>>), File(<<LineComment, LineRoot, LineNoId>>),
                   File(<<LineBlank, LineOneToken>>), File(<<LineBC, LineABC>>)}

\* source label files
PoseLine == <<"2", " ", "0", ".", "5", " ", "0", ".", "5", " ", "0", ".", "2",
              " ", "0", ".", "3", " ", "0", ".", "1", " ", "0", ".", "1", " ",
              "0", ".", "9">>
ShortLine == <<"0", " ", "0", ".", "5", " ", "0", ".", "5">>
GoodLabel == File(<<PoseLine>>)
ShortLabel == File(<<ShortLine>>)
EmptyLabel == File(<<>>)

Image(stem, suffix, kind) ==
    [stem |-> stem, suffix |-> suffix, kind |-> kind]
Entry(stem, suffix, kind, label) ==
    [img |-> Image(stem, suffix, kind), label |-> label]

StemABCD == <<"a", "_", "b", "_", "c", "_", "d">>
StemBC(c) == <<"b", "_", "c", "_", c>>

\* the source entries the whole-run specification draws the train split from
TrainPool == <<
    Entry(StemABCD, ".png", "file", GoodLabel),
    Entry(<<"z", "z">>, ".png", "file", GoodLabel),
    Entry(StemBC("1"), ".png", "file", NoFile),
    Entry(StemBC("2"), ".png", "file", Unreadable),
    Entry(StemBC("3"), ".png", "file", EmptyLabel),
    Entry(StemBC("4"), ".png", "file", ShortLabel),
    Entry(StemBC("5"), ".d", "dir", GoodLabel),
    Entry(StemABCD, ".jpg", "file", GoodLabel) >>

\* and the val split
ValPool == <<
    Entry(StemABCD, ".png", "file", GoodLabel),
    Entry(<<"z", "z">>, ".png", "file", GoodLabel),
    Entry(StemBC("4"), ".png", "file", ShortLabel) >>

\* the images and labels directories holding the entries `es`
ImagesOf(es) == {e.img : e \in es}
LabelsOf(es) ==
    [s \in {e.img.stem : e \in {x \in es : x.label.kind # "absent"}} |->
        (CHOOSE e \in es : e.img.stem = s).label]

ImageName(img) == <<img.stem, img.suffix>>
\* what shutil.copy2 stores: the source entry's bytes and metadata
ImageData(sp, img) == <<sp, img.stem, img.suffix>>

NoLocals == [split |-> None, img |-> Image(<<>>, "", "file"),
             class_id |-> Nothing, content |-> <<>>]
ZeroStats == [train |-> 0, val |-> 0, skipped |-> 0]
NoDirs == [sp \in SplitSet |-> EmptyDir]

Tree == [root |-> destRoot, yaml |-> yaml, dirs |-> dest_dirs,
         labels |-> dest_labels, images |-> dest_images]

\* ------------------------------------------------------------------ Init
InitRun ==
    /\ pc = "main" /\ run = 1 /\ err = None
    /\ folder_map = <<>>
    /\ yaml = FALSE /\ dest_dirs = {}
    /\ dest_labels = NoDirs /\ dest_images = NoDirs
    /\ stats = ZeroStats /\ splits = <<>> /\ image_files = {}
    /\ cur = NoLocals /\ processed = 0 /\ first = Nothing
    /\ name = <<>> /\ normalized = <<>>

Init ==
    /\ InitRun
    /\ mapFile \in SampleMapFiles
    /\ destRoot \in BOOLEAN
    /\ \E tr \in SUBSET (1..Len(TrainPool)), va \in SUBSET (1..Len(ValPool)) :
        /\ Cardinality(tr) <= MaxImages /\ Cardinality(va) <= MaxImages
        /\ src_images = [train |-> ImagesOf({TrainPool[i] : i \in tr}),
                         val |-> ImagesOf({ValPool[i] : i \in va})]
        /\ src_labels = [train |-> LabelsOf({TrainPool[i] : i \in tr}),
                         val |-> LabelsOf({ValPool[i] : i \in va})]

\* ------------------------------------------------------ load_gesture_map
Fatal(e) == pc' = "fatal" /\ err' = e

LoadNotFound ==
    /\ pc = "main" /\ mapFile.kind = "absent"
    /\ Fatal("FileNotFoundError")
    /\ UNCHANGED <<run, mapFile, folder_map, src_images, src_labels, destRoot,
                   yaml, dest_dirs, dest_labels, dest_images, stats, splits,
                   image_files, cur, processed, first, name, normalized>>

LoadEmpty_Returns ==
    /\ pc = "main" /\ mapFile.kind = "text" /\ ParseMap(mapFile.lines) = <<>>
    /\ pc' = "loaded" /\ folder_map' = <<>>
    /\ UNCHANGED <<run, err, mapFile, src_images, src_labels, destRoot,
                   yaml, dest_dirs, dest_labels, dest_images, stats, splits,
                   image_files, cur, processed, first, name, normalized>>

LoadEmpty ==
    /\ pc = "main" /\ mapFile.kind = "text" /\ ParseMap(mapFile.lines) = <<>>
    /\ Fatal("ValueError")
    /\ UNCHANGED <<run, mapFile, folder_map, src_images, src_labels, destRoot,
                   yaml, dest_dirs, dest_labels, dest_images, stats, splits,
                   image_files, cur, processed, first, name, normalized>>

LoadOk ==
    /\ pc = "main" /\ mapFile.kind = "text" /\ ParseMap(mapFile.lines) # <<>>
    /\ pc' = "loaded" /\ folder_map' = ParseMap(mapFile.lines)
    /\ UNCHANGED <<run, err, mapFile, src_images, src_labels, destRoot,
                   yaml, dest_dirs, dest_labels, dest_images, stats, splits,
                   image_files, cur, processed, first, name, normalized>>

load_gesture_map == LoadNotFound \/ LoadEmpty \/ LoadOk

\* ------------------------------------------------------- create_new_yaml
\* open(output_dir / "dataset.yaml", 'w') in a directory that does not exist
YamlNoDir ==
    /\ pc = "loaded" /\ ~destRoot
    /\ Fatal("FileNotFoundError")
    /\ UNCHANGED <<run, mapFile, folder_map, src_images, src_labels, destRoot,
                   yaml, dest_dirs, dest_labels, dest_images, stats, splits,
                   image_files, cur, processed, first, name, normalized>>

YamlWritten ==
    /\ pc = "loaded" /\ destRoot
    /\ yaml' = TRUE /\ pc' = "process"
    /\ UNCHANGED <<run, err, mapFile, folder_map, src_images, src_labels,
                   destRoot, dest_dirs, dest_labels, dest_images, stats,
                   splits, image_files, cur, processed, first, name, normalized>>

create_new_yaml == YamlNoDir \/ YamlWritten

\* ------------------------------------------------------- process_dataset
ProcessStart ==
    /\ pc = "process"
    /\ stats' = ZeroStats /\ splits' = Splits /\ pc' = "split"
    /\ UNCHANGED <<run, err, mapFile, folder_map, src_images, src_labels,
                   destRoot, yaml, dest_dirs, dest_labels, dest_images,
                   image_files, cur, processed, first, name, normalized>>

\* mkdir(parents=True, exist_ok=True) of both directories, then the glob
SplitNoImages ==
    /\ pc = "split" /\ splits # <<>> /\ src_images[Head(splits)] = {}
    /\ destRoot' = TRUE /\ dest_dirs' = dest_dirs \cup {Head(splits)}
    /\ splits' = Tail(splits)
    /\ UNCHANGED <<pc, run, err, mapFile, folder_map, src_images, src_labels,
                   yaml, dest_labels, dest_images, stats, image_files, cur,
                   processed, first, name, normalized>>

SplitImages ==
    /\ pc = "split" /\ splits # <<>> /\ src_images[Head(splits)] # {}
    /\ destRoot' = TRUE /\ dest_dirs' = dest_dirs \cup {Head(splits)}
    /\ image_files' = src_images[Head(splits)] /\ pc' = "images"
    /\ UNCHANGED <<run, err, mapFile, folder_map, src_images, src_labels,
                   yaml, dest_labels, dest_images, stats, splits, cur,
                   processed, first, name, normalized>>

\* the locals of the loop body for entry img of the current split
ClassId(img) == new_class_id(img.stem, folder_map)
OldLabel(img) ==
    IF img.stem \in DOMAIN src_labels[Head(splits)]
    THEN src_labels[Head(splits)][img.stem] ELSE NoFile
Content(img) == new_label_content(ClassId(img)[1], OldLabel(img).lines)
Locals(img, content) ==
    [split |-> Head(splits), img |-> img, class_id |-> ClassId(img),
     content |-> content]

\* the loop body ended (continue, or fell off its end): on to the next entry
BodyEnds(img, content) ==
    /\ cur' = Locals(img, content)
    /\ processed' = processed + 1
    /\ image_files' = image_files \ {img}
    /\ IF image_files = {img}
       THEN pc' = "split" /\ splits' = Tail(splits)
       ELSE pc' = "images" /\ splits' = splits
    /\ UNCHANGED <<run, mapFile, folder_map, src_images, src_labels, destRoot,
                   yaml, dest_dirs, first, name, normalized>>

\* the loop body raised: the exception leaves process_dataset
BodyRaises(img, content, e) ==
    /\ cur' = Locals(img, content)
    /\ processed' = processed + 1
    /\ Fatal(e)
    /\ UNCHANGED <<image_files, splits>>
    /\ UNCHANGED <<run, mapFile, folder_map, src_images, src_labels, destRoot,
                   yaml, dest_dirs, first, name, normalized>>

Skip == [stats EXCEPT !.skipped = @ + 1]

SkipNoMatch(img) ==
    /\ pc = "images"
    /\ ClassId(img) = Nothing
    /\ stats' = Skip
    /\ BodyEnds(img, <<>>)
    /\ UNCHANGED <<dest_labels, dest_images, err>>

SkipNoLabel(img) ==
    /\ pc = "images"
    /\ ClassId(img) # Nothing /\ OldLabel(img).kind = "absent"
    /\ stats' = Skip
    /\ BodyEnds(img, <<>>)
    /\ UNCHANGED <<dest_labels, dest_images, err>>

SkipReadError(img) ==
    /\ pc = "images"
    /\ ClassId(img) # Nothing /\ OldLabel(img).kind = "unreadable"
    /\ stats' = Skip
    /\ BodyEnds(img, <<>>)
    /\ UNCHANGED <<dest_labels, dest_images, err>>

\* `if new_label_content:` is false: the body ends without touching stats
NoContent(img) ==
    /\ pc = "images"
    /\ ClassId(img) # Nothing /\ OldLabel(img).kind = "text"
    /\ Content(img) = <<>>
    /\ BodyEnds(img, <<>>)
    /\ UNCHANGED <<dest_labels, dest_images, stats, err>>

HasContent(img) ==
    /\ pc = "images"
    /\ ClassId(img) # Nothing /\ OldLabel(img).kind = "text"
    /\ Content(img) # <<>>

WriteLabel_Appends(dir, stem, text) ==
    Put(dir, stem, (IF stem \in DOMAIN dir THEN dir[stem] ELSE <<>>) \o text)

\* open(new_label_path, 'w') and f.write(new_label_content)
WriteLabel(dir, stem, text) == Put(dir, stem, text)

\* open(new_label_path, 'w') raises: nothing is created
LabelOpenRaises(img) ==
    /\ HasContent(img)
    /\ BodyRaises(img, Content(img), "OSError")
    /\ UNCHANGED <<dest_labels, dest_images, stats>>

\* the file is created or truncated, then f.write raises
LabelWriteRaises(img) ==
    /\ HasContent(img)
    /\ dest_labels' = [dest_labels EXCEPT
                         ![Head(splits)] = WriteLabel(@, img.stem, <<>>)]
    /\ BodyRaises(img, Content(img), "OSError")
    /\ UNCHANGED <<dest_images, stats>>

\* the label is written, then shutil.copy2 raises on an entry that is a
\* directory
CopyRaises(img) ==
    /\ HasContent(img) /\ img.kind = "dir"
    /\ dest_labels' = [dest_labels EXCEPT
                         ![Head(splits)] = WriteLabel(@, img.stem, Content(img))]
    /\ BodyRaises(img, Content(img), "IsADirectoryError")
    /\ UNCHANGED <<dest_images, stats>>

Commit(img) ==
    /\ HasContent(img) /\ img.kind = "file"
    /\ dest_labels' = [dest_labels EXCEPT
                         ![Head(splits)] = WriteLabel(@, img.stem, Content(img))]
    /\ dest_images' = [dest_images EXCEPT
                         ![Head(splits)] = Put(@, ImageName(img),
                                               ImageData(Head(splits), img))]
    /\ stats' = [stats EXCEPT ![Head(splits)] = @ + 1]
    /\ BodyEnds(img, Content(img))
    /\ UNCHANGED err

\* one iteration of `for src_img_path in image_files`
LoopBody ==
    \/ \E img \in image_files : SkipNoMatch(img)
    \/ \E img \in image_files : SkipNoLabel(img)
    \/ \E img \in image_files : SkipReadError(img)
    \/ \E img \in image_files : NoContent(img)
    \/ \E img \in image_files : LabelOpenRaises(img)
    \/ \E img \in image_files : LabelWriteRaises(img)
    \/ \E img \in image_files : CopyRaises(img)
    \/ \E img \in image_files : Commit(img)

\* the loops are over: the summary is printed
Summary ==
    /\ pc = "split" /\ splits = <<>>
    /\ pc' = "visualize"
    /\ UNCHANGED <<run, err, mapFile, folder_map, src_images, src_labels,
                   destRoot, yaml, dest_dirs, dest_labels, dest_images, stats,
                   splits, image_files, cur, processed, first, name, normalized>>

process_dataset == ProcessStart \/ SplitNoImages \/ SplitImages \/ LoopBody \/ Summary

\* ----------------------------------------------------- visualize_results
VERIFICATION_COUNT == 5

RECURSIVE LinesAcc(_, _, _)
LinesAcc(text, line, acc) ==
    IF text = <<>> THEN (IF line = <<>> THEN acc ELSE Append(acc, line))
    ELSE IF Head(text) = "\n" THEN LinesAcc(Tail(text), <<>>, Append(acc, line))
    ELSE LinesAcc(Tail(text), Append(line, Head(text)), acc)

\* the lines `for line in f` yields for a file holding `text`
LinesOf(text) == LinesAcc(text, <<>>, <<>>)

\* float(tok) succeeds (unsigned decimal notation)
IsFloat(tok) ==
    /\ \E i \in 1..Len(tok) : tok[i] \in DigitSet
    /\ \A i \in 1..Len(tok) : tok[i] \in DigitSet \cup {"."}
    /\ Cardinality({i \in 1..Len(tok) : tok[i] = "."}) <= 1

\* map(float, ...) or the unpacking of parts[1:5] raises ValueError
DrawRaises(text) ==
    \E i \in 1..Len(LinesOf(text)) :
        LET parts == split(LinesOf(text)[i])
        IN  \/ \E j \in 1..Len(parts) : ~IsFloat(parts[j])
            \/ Len(parts) < 5

\* a sampled image that cv2 decodes has a label that cannot be drawn
VisualizeRaises ==
    /\ pc = "visualize"
    /\ \E sample \in SUBSET (DOMAIN dest_images["val"]) :
        /\ Cardinality(sample) =
               Min(Cardinality(DOMAIN dest_images["val"]), VERIFICATION_COUNT)
        /\ \E n \in sample :
            /\ n[1] \in DOMAIN dest_labels["val"]
            /\ DrawRaises(dest_labels["val"][n[1]])
    /\ Fatal("ValueError")
    /\ UNCHANGED <<run, mapFile, folder_map, src_images, src_labels, destRoot,
                   yaml, dest_dirs, dest_labels, dest_images, stats, splits,
                   image_files, cur, processed, first, name, normalized>>

\* every sampled image is skipped (cv2 does not decode it) or drawn
VisualizeDone ==
    /\ pc = "visualize"
    /\ pc' = "done"
    /\ UNCHANGED <<run, err, mapFile, folder_map, src_images, src_labels,
                   destRoot, yaml, dest_dirs, dest_labels, dest_images, stats,
                   splits, image_files, cur, processed, first, name, normalized>>

visualize_results == VisualizeRaises \/ VisualizeDone

\* ---------------------------------------------------------- the script
\* the script is started again on the unchanged source and the destination
\* the previous run left
Rerun ==
    /\ pc = "done" /\ run < MaxRuns
    /\ first' = IF run = 1 THEN Just([stats |-> stats, tree |-> Tree]) ELSE first
    /\ run' = run + 1 /\ pc' = "main" /\ err' = None
    /\ folder_map' = <<>> /\ stats' = ZeroStats /\ splits' = <<>>
    /\ image_files' = {} /\ cur' = NoLocals /\ processed' = 0
    /\ UNCHANGED <<mapFile, src_images, src_labels, destRoot, yaml, dest_dirs,
                   dest_labels, dest_images, name, normalized>>

Next ==
    \/ load_gesture_map
    \/ create_new_yaml
    \/ process_dataset
    \/ visualize_results
    \/ Rerun

Spec == Init /\ [][Next]_vars

\* ------------------------------------------- load_gesture_map on its own
InitMap ==
    /\ InitRun
    /\ mapFile \in {NoFile} \cup {File(f) : f \in FilesUpTo(MapLines, MaxMapLines)}
    /\ destRoot = TRUE
    /\ src_images = [sp \in SplitSet |-> {}]
    /\ src_labels = NoDirs

SpecMap == InitMap /\ [][load_gesture_map]_vars

\* --------------------------------------------- the loop body on its own
KeyChars == {"b", "_"}
GenKeys == SeqsUpTo(KeyChars, MaxKeyLen) \ {<<>>}
GenStems == (SeqsUpTo(KeyChars, MaxStemLen) \ {<<>>}) \cup {StemABCD}

RECURSIVE KeyNumber(_, _)
\* a class id of its own for every generated key
KeyNumber(key, acc) ==
    IF key = <<>> THEN acc
    ELSE KeyNumber(Tail(key), 3 * acc + (IF Head(key) = "b" THEN 1 ELSE 2))

KeyLine(key) == key \o <<" ">> \o str(KeyNumber(key, 0))
\* the keys of a generated file are distinct, in ascending or in descending
\* order of their class ids (shorter keys first, or longer keys first)
Ordered(ks) ==
    \/ \A i \in 1..(Len(ks) - 1) : KeyNumber(ks[i], 0) < KeyNumber(ks[i + 1], 0)
    \/ \A i \in 1..(Len(ks) - 1) : KeyNumber(ks[i], 0) > KeyNumber(ks[i + 1], 0)
GenMapFiles ==
    {File([i \in 1..Len(ks) |-> KeyLine(ks[i])]) :
        ks \in {g \in FilesUpTo(GenKeys, MaxMapSize) : g # <<>> /\ Ordered(g)}}
        \cup {File(<<LineBC, LineABC>>)}

\* the token at position p of a generated pose line
Token(p) == IF p = 0 THEN <<"2">> ELSE <<"0", ".", Digits[p + 1]>>
\* a line of n tokens: single spaces, or tab and space between the tokens
\* and a space before and after them
GenLine(n, padded) ==
    LET text == join(IF padded THEN <<"\t", " ">> ELSE <<" ">>,
                     [p \in 1..n |-> Token(p - 1)])
    IN  IF padded THEN <<" ">> \o text \o <<" ">> ELSE text
GenLabelLines ==
    {GenLine(n, padded) : n \in 0..MaxTokens, padded \in BOOLEAN}
GenLabels ==
    {NoFile, Unreadable, GoodLabel}
        \cup {File(f) : f \in FilesUpTo(GenLabelLines, MaxLabelLines)}

\* process_dataset is inside the train split's loop with one entry to visit
InitBody(map, img, label) ==
    /\ pc = "images" /\ run = 1 /\ err = None
    /\ mapFile = map /\ folder_map = ParseMap(map.lines)
    /\ src_images = [train |-> {img}, val |-> {}]
    /\ src_labels = [train |-> LabelsOf({[img |-> img, label |-> label]}),
                     val |-> EmptyDir]
    /\ destRoot = TRUE /\ yaml = TRUE /\ dest_dirs = {"train"}
    /\ dest_labels = NoDirs /\ dest_images = NoDirs
    /\ stats = ZeroStats /\ splits = Splits /\ image_files = {img}
    /\ cur = NoLocals /\ processed = 0 /\ first = Nothing
    /\ name = <<>> /\ normalized = <<>>

InitImage ==
    \/ \E map \in GenMapFiles, stem \in GenStems :
           InitBody(map, Image(stem, ".png", "file"), GoodLabel)
    \/ \E label \in GenLabels :
           InitBody(File(<<LineBCAgain, LineABC>>),
                    Image(StemBC("1"), ".png", "file"), label)
    \/ InitBody(File(<<LineBCAgain, LineABC>>),
                Image(StemBC("5"), ".d", "dir"), GoodLabel)

SpecImage == InitImage /\ [][LoopBody]_vars

\* ---------------------------------------------- normalize_name on its own
NameChars == {"O", "o", "-", "_", " "}
OpenPinchHyphen == <<"O", "p", "e", "n", "-", "P", "i", "n", "c", "h">>
OpenPinchSpace == <<"o", "p", "e", "n", " ", "p", "i", "n", "c", "h">>
Names == SeqsUpTo(NameChars, MaxNameLen) \cup {OpenPinchHyphen, OpenPinchSpace}

InitNorm ==
    /\ pc = "normalize" /\ run = 1 /\ err = None
    /\ mapFile = NoFile /\ folder_map = <<>>
    /\ src_images = [sp \in SplitSet |-> {}] /\ src_labels = NoDirs
    /\ destRoot = FALSE /\ yaml = FALSE /\ dest_dirs = {}
    /\ dest_labels = NoDirs /\ dest_images = NoDirs
    /\ stats = ZeroStats /\ splits = <<>> /\ image_files = {}
    /\ cur = NoLocals /\ processed = 0 /\ first = Nothing
    /\ name \in Names /\ normalized = <<>>

Normalize ==
    /\ pc = "normalize"
    /\ normalized' = normalize_name(name) /\ pc' = "normalized"
    /\ UNCHANGED <<run, err, mapFile, folder_map, src_images, src_labels,
                   destRoot, yaml, dest_dirs, dest_labels, dest_images, stats,
                   splits, image_files, cur, processed, first, name>>

SpecNorm == InitNorm /\ [][Normalize]_vars

\* ================================================================ claims

\* the stems of the label files, and of the image files, of a destination split
LabelStems(sp) == DOMAIN dest_labels[sp]
ImageStems(sp) == {n[1] : n \in DOMAIN dest_images[sp]}
Ended == pc \in {"done", "fatal"}

\* C1: whenever the run has ended (completed or stopped on an error), each
\* destination split holds a label <stem>.txt exactly when it holds an image
\* with that stem.
C1_Paired ==
    Ended => \A sp \in SplitSet : LabelStems(sp) = ImageStems(sp)

\* the keys of the gesture map that occur in the stem
Occurring(stem) ==
    {i \in 1..Len(folder_map) : Contains(stem, folder_map[i][1])}

C2_State == processed = 1 /\ cur.split = "train"

\* C2: the class id chosen for a stem is the id of a key of maximal length
\* among the keys occurring in the stem; when no key occurs, None is chosen
\* and nothing is written for the image.
C2_LongestKeyWins ==
    C2_State =>
        IF Occurring(cur.img.stem) = {}
        THEN /\ cur.class_id = Nothing
             /\ dest_labels = NoDirs /\ dest_images = NoDirs
             /\ stats["train"] = 0
        ELSE \E i \in Occurring(cur.img.stem) :
                /\ cur.class_id = Just(folder_map[i][2])
                /\ \A j \in Occurring(cur.img.stem) :
                       Len(folder_map[j][1]) <= Len(folder_map[i][1])

\* the claim's example: keys {b_c: 10, a_b_c: 4} and stem a_b_c_d give 4
C2_Witness ==
    /\ C2_State
    /\ mapFile = File(<<LineBC, LineABC>>)
    /\ cur.img.stem = StemABCD
    /\ cur.class_id = Just(4)

NonBlank(line) == split(line) # <<>>
SingleSpaced(line) ==
    /\ line # <<>> /\ line[1] # " "
    /\ \A i \in 1..Len(line) : line[i] # "\t"
    /\ \A i \in 1..(Len(line) - 1) : ~(line[i] = " " /\ line[i + 1] = " ")

\* the loop body read the source label of a matched stem
C3_State ==
    /\ processed = 1 /\ cur.class_id # Nothing
    /\ cur.img.stem \in DOMAIN src_labels[cur.split]
    /\ src_labels[cur.split][cur.img.stem].kind = "text"

\* C3: the transcoded text has, in source order, one line per non-blank
\* source line: the class id, then the source tokens at positions 1 to 4
\* verbatim, single spaces between them and nothing else (no placeholder, no
\* token from position 5 on); the label file written holds exactly that text.
C3_Transcoded ==
    C3_State =>
        LET src == SelectSeq(src_labels[cur.split][cur.img.stem].lines, NonBlank)
            out == LinesOf(cur.content)
        IN  /\ Len(out) = Len(src)
            /\ cur.content # <<>> => cur.content[Len(cur.content)] = "\n"
            /\ \A k \in 1..Len(out) :
                /\ split(out[k]) =
                       <<str(cur.class_id[1])>>
                           \o [p \in 1..Min(4, Len(split(src[k])) - 1) |->
                                  split(src[k])[p + 1]]
                /\ SingleSpaced(out[k])
            /\ stats[cur.split] = 1 =>
                   dest_labels[cur.split][cur.img.stem] = cur.content

\* the claim's example: "2 0.5 0.5 0.2 0.3 0.1 0.1 0.9" with class id 7
C3_Witness ==
    /\ C3_State
    /\ src_labels[cur.split][cur.img.stem] = GoodLabel
    /\ cur.class_id = Just(7)
    /\ stats[cur.split] = 1
    /\ dest_labels[cur.split][cur.img.stem] =
           <<"7", " ", "0", ".", "5", " ", "0", ".", "5", " ", "0", ".", "2",
             " ", "0", ".", "3", "\n">>

\* no valid entry is parsed from the mapping file
NoValidEntry ==
    \A i \in 1..Len(mapFile.lines) :
        LET line == mapFile.lines[i]
        IN  \/ IsBlank(line) \/ IsComment(line)
            \/ Len(split(line)) < 2
            \/ ~IsInt(split(line)[Len(split(line))])
            \/ processed_key(split(line)[1]) = <<>>
BadMap == mapFile.kind = "absent" \/ NoValidEntry

\* C4: the fatal-error end state is reached only when the mapping file is
\* missing or empty; with a mapping file that yields an entry the run goes
\* on to process_dataset and its summary.
C4_FatalOnlyOnBadMap ==
    pc = "fatal" => BadMap

\* C5: a loop body whose stem matched a key and whose source label exists but
\* gave an empty text (no non-blank line, or the read failed) adds exactly one
\* to skipped, leaves the split's counter alone and writes nothing.
C5_EmptyLabelSkipped ==
    [][(/\ processed' = processed + 1
        /\ cur'.class_id # Nothing
        /\ cur'.img.stem \in DOMAIN src_labels[cur'.split]
        /\ \/ src_labels[cur'.split][cur'.img.stem].kind = "unreadable"
           \/ SelectSeq(src_labels[cur'.split][cur'.img.stem].lines, NonBlank) = <<>>)
       => (/\ stats'.skipped = stats.skipped + 1
           /\ stats'[cur'.split] = stats[cur'.split]
           /\ dest_labels' = dest_labels /\ dest_images' = dest_images)]_vars

\* the lines load_gesture_map is said to count
Counted(line) ==
    /\ ~IsBlank(line) /\ ~IsComment(line)
    /\ Len(split(line)) >= 2
    /\ IsInt(split(line)[Len(split(line))])
CountedLines == {i \in 1..Len(mapFile.lines) : Counted(mapFile.lines[i])}

\* C6 as stated: the number of keys of the returned map is the number of
\* non-blank, non-comment lines with at least 2 tokens and an integer last
\* token.
C6_KeyCountIsLineCount ==
    pc = "loaded" => Len(folder_map) = Cardinality(CountedLines)

\* C6 as amended: the number of keys of the returned map is the number of
\* distinct non-empty normalized keys among those lines.
C6_KeyCountIsDistinctKeys ==
    pc = "loaded" =>
        /\ Len(folder_map) =
               Cardinality({processed_key(split(mapFile.lines[i])[1]) :
                               i \in CountedLines} \ {<<>>})
        /\ Len(folder_map) <= Cardinality(CountedLines)

\* two counted lines normalize to the same key
C6_Witness ==
    /\ pc = "loaded"
    /\ mapFile = File(<<LineBC, LineBCAgain>>)
    /\ folder_map = << << <<"b", "_", "c">>, 7 >> >>

\* C7: with a missing mapping file the run ends in the fatal state with the
\* not-found error, with a mapping file that yields no valid entry it ends
\* there with the empty-map error; in both cases no loop body runs and no
\* step creates or changes anything in the destination tree.
C7_BadMapIsFatal ==
    /\ [](BadMap =>
            /\ pc \in {"main", "fatal"}
            /\ processed = 0
            /\ pc = "fatal" =>
                   err = IF mapFile.kind = "absent" THEN "FileNotFoundError"
                         ELSE "ValueError")
    /\ [][BadMap => Tree' = Tree]_vars

C7_Witness ==
    /\ pc = "fatal" /\ err = "ValueError"
    /\ mapFile = File(<<LineComment, LineRoot, LineNoId>>)
    /\ processed = 0 /\ ~yaml /\ dest_dirs = {}

\* C8: a later run on the unchanged source, started on the destination the
\* first run left, ends with the first run's train, val and skipped counts
\* and with the destination tree (files and contents) as the first run left it.
C8_Idempotent ==
    (run >= 2 /\ pc \in {"visualize", "done"}) =>
        first = Just([stats |-> stats, tree |-> Tree])

C8_Witness ==
    /\ run = 2 /\ pc = "done"
    /\ stats["train"] >= 1 /\ stats["val"] >= 1 /\ stats.skipped >= 1
    /\ first = Just([stats |-> stats, tree |-> Tree])

Removed == {"-", "_", " "}
Kept(c) == c \notin Removed
\* the letters of a name, case folded
Letters(n) == SelectSeq([i \in 1..Len(n) |-> lowerChar(n[i])], Kept)

\* C9: normalize_name returns its argument lower-cased with every hyphen,
\* underscore and space removed; names that differ only in case, hyphens,
\* underscores and spaces get the same key; normalizing a key returns it.
C9_Normalized ==
    pc = "normalized" =>
        /\ normalized = Letters(name)
        /\ \A other \in Names :
               Letters(other) = Letters(name) => normalize_name(other) = normalized
        /\ normalize_name(normalized) = normalized

\* the claim's example: "Open-Pinch" gives "openpinch"
C9_Witness ==
    /\ pc = "normalized"
    /\ name = OpenPinchHyphen
    /\ normalized = <<"o", "p", "e", "n", "p", "i", "n", "c", "h">>
    /\ normalize_name(OpenPinchSpace) = normalized

\* C10: every line of every label file written to the destination has
\* exactly five whitespace-separated tokens, the first a class id of the
\* gesture map.
C10_FiveTokens ==
    \A sp \in SplitSet : \A stem \in DOMAIN dest_labels[sp] :
        \A k \in 1..Len(LinesOf(dest_labels[sp][stem])) :
            LET parts == split(LinesOf(dest_labels[sp][stem])[k])
            IN  /\ Len(parts) = 5
                /\ IsInt(parts[1]) /\ int(parts[1]) \in Values(folder_map)

====
